---- MODULE Spec2Model ----
(***************************************************************************)
(* Model of the two upload scripts of HUGEOLab/unified-vqa-dataset:        *)
(*   unified_vqa_processor.py        ("processor": incremental upload)     *)
(*   unified_vqa_datasets_parquet.py ("parquet": parquet packaging)        *)
(* A behaviour is a sequence of runs of one script over an unchanged local *)
(* tree; the dataset hub and the GitHub mirror persist between runs.       *)
(***************************************************************************)
EXTENDS Integers, Sequences, FiniteSets, TLC

\* ------------------------------------------------------------------ bounds
\* Small inventories hold 0..MaxSmall assets; the remote set ranges over
\* every subset of their paths plus one foreign path.
MaxSmall == 3
\* Large inventories hold k*BATCH_SIZE and k*BATCH_SIZE + 1 assets, k = 1..MaxFullBatches.
MaxFullBatches == 2

\* ------------------------------------------------------- program constants
BATCH_SIZE == 500
MAX_RETRIES == 3

CURRENT_DIR == <<"/", "mnt", "mydev2", "M256374", "unified-vqa-dataset">>
IMAGE_EXTENSIONS == {".jpg", ".jpeg", ".png", ".gif", ".bmp", ".webp"}
CODE_EXTENSIONS == {".py", ".md", ".txt", ".json", ".yaml", ".yml", ".sh"}

\* ------------------------------------------------------------------- paths
\* A pathlib.Path is its directory parts, the final component's stem and suffix.
MkPath(parts, stem, suffix) == [parts |-> parts, stem |-> stem, suffix |-> suffix]

\* Path(root) / file, for root = CURRENT_DIR / dirs.
UnderRoot(dirs, stem, suffix) == MkPath(CURRENT_DIR \o dirs, stem, suffix)

IsPrefix(s, t) == Len(s) <= Len(t) /\ SubSeq(t, 1, Len(s)) = s

\* Path.relative_to(base): the parts after base (ValueError when base is no prefix;
\* every path of the model comes from a walk below CURRENT_DIR).
relative_to(p, base) == [p EXCEPT !.parts = SubSeq(p.parts, Len(base) + 1, Len(p.parts))]

RECURSIVE JoinWith(_, _)
JoinWith(parts, sep) ==
    IF Len(parts) = 1 THEN parts[1]
    ELSE JoinWith(SubSeq(parts, 1, Len(parts) - 1), sep) \o sep \o parts[Len(parts)]

\* Path.as_posix(): the parts joined by "/", after the root of an absolute path.
as_posix(p) ==
    LET all == p.parts \o <<p.stem \o p.suffix>>
    IN IF Head(all) = "/" THEN "/" \o JoinWith(Tail(all), "/") ELSE JoinWith(all, "/")

\* f.relative_to(CURRENT_DIR).as_posix()
RelPath(f) == as_posix(relative_to(f, CURRENT_DIR))

\* The printable ASCII characters in code point order: 32 (the space) to 95,
\* and 97 to 126.
ASCII_32_95 == " !\"#$%&'()*+,-./0123456789:;<=>?@ABCDEFGHIJKLMNOPQRSTUVWXYZ[\\]^_"
ASCII_97_126 == "abcdefghijklmnopqrstuvwxyz{|}~"

\* chr(n)
Chr(n) ==
    IF n < 97 THEN SubSeq(ASCII_32_95, n - 31, n - 31) ELSE SubSeq(ASCII_97_126, n - 96, n - 96)

\* The code points of the printable ASCII characters but the backquote.
CodePoints == (32..95) \cup (97..126)

\* ord(c) of every one-character string c.
OrdTable == [c \in {Chr(n) : n \in CodePoints} |-> CHOOSE n \in CodePoints : Chr(n) = c]

\* ord(c) of the one-character string c.
Ord(c) == OrdTable[c]

\* The lower case letter of every upper case letter: chr(ord(c) + 32).
LowerTable ==
    [c \in {Chr(n) : n \in Ord("A")..Ord("Z")} |-> Chr(Ord(c) + (Ord("a") - Ord("A")))]

\* c.lower() of one character.
LowerChar(c) == IF c \in DOMAIN LowerTable THEN LowerTable[c] ELSE c

\* str.lower()
RECURSIVE lower(_)
lower(s) ==
    IF Len(s) = 0 THEN s
    ELSE LowerChar(SubSeq(s, 1, 1)) \o lower(SubSeq(s, 2, Len(s)))

\* a < b on str: the order of the first differing characters, a proper prefix first.
RECURSIVE StrLess(_, _)
StrLess(a, b) ==
    IF Len(a) = 0 THEN Len(b) > 0
    ELSE IF Len(b) = 0 THEN FALSE
    ELSE LET ca == Ord(SubSeq(a, 1, 1))
             cb == Ord(SubSeq(b, 1, 1))
         IN IF ca # cb THEN ca < cb
            ELSE StrLess(SubSeq(a, 2, Len(a)), SubSeq(b, 2, Len(b)))

Min(a, b) == IF a < b THEN a ELSE b

\* -------------------------------------------------------------- local tree
VARIABLES
    script,             \* which script the behaviour runs: "processor" or "parquet"
    tree,               \* every file below CURRENT_DIR, in os.walk order
    images_dir_exists,  \* (CURRENT_DIR / "unified-vqa-images").exists()
    annotations_json,   \* the object json.load reads from CURRENT_DIR / "annotations.json"
    hub,                \* paths held by the dataset hub repository HF_REPO
    mirror,             \* relative paths whose content on the GitHub branch equals the local file
    pc,                 \* position of the running script ("crashed": main ended by an exception)
    image_files,        \* main: imgs
    other_files,        \* main: others (processor) / code_files (parquet)
    remote_files,       \* upload_to_huggingface_incremental: remote_files
    files_to_upload,    \* upload_to_huggingface_incremental: files_to_upload
    skipped_count,      \* upload_to_huggingface_incremental: skipped_count
    total_batches,      \* upload_to_huggingface_incremental: total_batches
    i,                  \* upload_to_huggingface_incremental: i of the batch loop
    attempt,            \* upload_to_huggingface_incremental: attempt of the retry loop
    hf_ok,              \* main: hf_ok ("unset" before the assignment)
    gh_ok,              \* main: gh_ok ("unset" before the assignment)
    reported,           \* what main printed last: "none", "success", "problem", "error"
    work_copy,          \* whether /tmp/gh_upload_incremental is a git working copy
    status,             \* upload_to_github_simple: status
    probe,              \* history: outcome of get_remote_hf_files in this run ("none": not called)
    attempts,           \* history: create_commit calls per batch number in this run
    committed,          \* history: batch numbers whose create_commit returned in this run
    failed_batch,       \* history: batch number that exhausted its retries (0: none)
    net_calls,          \* history: kinds of network call made in this run
    clones,             \* history: git clone calls of this run, <<transport, success>>
    commits,            \* history: git commit calls of this run
    pushes,             \* history: git push calls of this run
    prev_hf,            \* history: hf_ok of the previous run
    uploaded,           \* history: paths this program has committed to the hub
    data_list           \* create_parquet_dataset: data_list

vars == <<script, tree, images_dir_exists, annotations_json, hub, mirror, pc, image_files,
          other_files, remote_files, files_to_upload, skipped_count, total_batches,
          i, attempt, hf_ok, gh_ok, reported, work_copy, status, probe, attempts,
          committed, failed_batch, net_calls, clones, commits, pushes, prev_hf,
          uploaded, data_list>>

env_vars == <<script, tree, images_dir_exists, annotations_json, data_list>>
hf_locals == <<remote_files, files_to_upload, skipped_count, total_batches, i, attempt>>
hf_hist == <<probe, attempts, committed, failed_batch>>
gh_locals == <<work_copy, status>>
gh_hist == <<clones, commits, pushes>>

\* The k-th asset of directory dir of the images directory.
AssetIn(dir, k) == UnderRoot(<<"unified-vqa-images", dir>>, ToString(k),
                             IF k = 2 THEN ".PNG" ELSE ".jpg")

\* The k-th asset of the images directory.
Asset(k) == AssetIn("train", k)

\* The images directory holding n assets, after one file that is no image.
ImagesTree(n, order) ==
    <<UnderRoot(<<"unified-vqa-images">>, "labels", ".txt")>>
    \o [k \in 1..n |-> Asset(IF order = "asc" THEN k ELSE n + 1 - k)]

\* An images directory of two directories whose files the walk meets out of
\* name order.
TwoDirTree ==
    << AssetIn("val", 3), AssetIn("val", 1), AssetIn("train", 2), AssetIn("train", 1) >>

\* An annotations.json: one entry for the image id "1", one for no image.
SampleAnnotations ==
    [id \in {"1", "none"} |-> [question |-> "what is shown?", answer |-> "a road"]]

\* The files outside the images directory.
AncillaryTree ==
    << UnderRoot(<<>>, "README", ".md"),
       UnderRoot(<<>>, "logo", ".png"),
       UnderRoot(<<".git">>, "config", ""),
       UnderRoot(<<"__pycache__">>, "run", ".pyc"),
       UnderRoot(<<"scripts">>, "run", ".py"),
       UnderRoot(<<"scripts">>, "data", ".csv") >>

\* os.walk(top): the files below top.
Walk(top) == SelectSeq(tree, LAMBDA f : IsPrefix(top, f.parts))

\* os.walk(CURRENT_DIR) with the directories named in `pruned` removed from dirs.
WalkPruned(pruned) ==
    SelectSeq(tree, LAMBDA f :
        \A k \in Len(CURRENT_DIR) + 1 .. Len(f.parts) : f.parts[k] \notin pruned)

\* --------------------------------------------- unified_vqa_processor.py

\* categorize_files(): (image_files, other_files)
categorize_images ==
    IF images_dir_exists
    THEN SelectSeq(Walk(CURRENT_DIR \o <<"unified-vqa-images">>),
                   LAMBDA f : lower(f.suffix) \in IMAGE_EXTENSIONS)
    ELSE <<>>

categorize_others ==
    SelectSeq(WalkPruned({".git", "unified-vqa-images"}),
              LAMBDA f : lower(f.suffix) \notin IMAGE_EXTENSIONS)

\* What the remote probe can meet.
ProbeOutcomes == {"ok", "failed", "import_error"}

\* get_remote_hf_files(repo_id): set(files), or set() when the import or
\* list_repo_files raises.
\* (variant: the listing is used whether or not the query failed)
get_remote_hf_files_no_degrade(ok) == hub
get_remote_hf_files(ok) == IF ok THEN hub ELSE {}

\* The diff loop: an entry whose relative path is in remote is counted, any other appended.
\* (variant: the membership test inverted)
PlanUpload_inverted(files, remote) ==
    SelectSeq(files, LAMBDA f : RelPath(f) \in remote)
PlanUpload(files, remote) ==
    SelectSeq(files, LAMBDA f : RelPath(f) \notin remote)

PlanSkipped(files, remote) ==
    Cardinality({k \in DOMAIN files : RelPath(files[k]) \in remote})

\* total_batches = (len(files_to_upload) + BATCH_SIZE - 1) // BATCH_SIZE
\* (variant: len // BATCH_SIZE + 1)
TotalBatches_plus_one(n) == n \div BATCH_SIZE + 1
TotalBatches(n) == (n + BATCH_SIZE - 1) \div BATCH_SIZE

\* batch = files_to_upload[i:i+BATCH_SIZE]
Batch(files, start) == SubSeq(files, start + 1, Min(start + BATCH_SIZE, Len(files)))

\* batch_num = i // BATCH_SIZE + 1
BatchNum(start) == start \div BATCH_SIZE + 1

\* range(0, len(files_to_upload), BATCH_SIZE) has a next element after `start`.
HasNextBatch(start, n) == start + BATCH_SIZE < n

\* range(0, n, BATCH_SIZE) from `start` on: the values of i the batch loop takes.
RECURSIVE RangeFrom(_, _)
RangeFrom(start, n) ==
    <<start>> \o (IF HasNextBatch(start, n) THEN RangeFrom(start + BATCH_SIZE, n) ELSE <<>>)

\* for attempt in range(3): the attempt just made was the last one.
\* (variant: one attempt more)
RetriesExhausted_extra(a) == a + 1 > MAX_RETRIES
RetriesExhausted(a) == a + 1 >= MAX_RETRIES

\* path_in_repo of every CommitOperationAdd of the batch.
\* (variant: path_in_repo = the absolute path)
CommitPaths_absolute(batch) == {as_posix(batch[k]) : k \in DOMAIN batch}
CommitPaths(batch) == {RelPath(batch[k]) : k \in DOMAIN batch}

Bool(b) == IF b THEN "True" ELSE "False"

\* main: imgs, others = categorize_files()
Main_Categorize ==
    /\ pc = "start" /\ script = "processor"
    /\ image_files' = categorize_images
    /\ other_files' = categorize_others
    /\ pc' = "call_hf"
    /\ UNCHANGED <<env_vars, hub, mirror, hf_locals, hf_ok, gh_ok, reported,
                   gh_locals, hf_hist, net_calls, gh_hist, prev_hf, uploaded>>

\* upload_to_huggingface_incremental(imgs) with no image: returns True at once.
Hf_NoImages ==
    /\ pc = "call_hf" /\ image_files = <<>>
    /\ hf_ok' = "True"
    /\ pc' = "call_gh"
    /\ UNCHANGED <<env_vars, hub, mirror, image_files, other_files, hf_locals,
                   gh_ok, reported, gh_locals, hf_hist, net_calls, gh_hist, prev_hf,
                   uploaded>>

\* upload_to_huggingface_incremental(imgs): the remote probe, the diff loop, the
\* import of the upload classes and the batch count. The probe's outcome is
\*   "ok"            list_repo_files returns,
\*   "failed"        list_repo_files raises,
\*   "import_error"  huggingface_hub cannot be imported: the probe's import
\*                   raises inside its try, and the import that follows the
\*                   diff loop raises outside any try, which ends main.
Hf_ProbeAndPlan(outcome) ==
    /\ pc = "call_hf" /\ image_files # <<>>
    /\ LET remote == get_remote_hf_files(outcome = "ok")
           todo == PlanUpload(image_files, remote)
       IN /\ remote_files' = remote
          /\ files_to_upload' = todo
          /\ skipped_count' = PlanSkipped(image_files, remote)
          /\ IF todo = <<>>
             THEN /\ hf_ok' = "True"
                  /\ pc' = "call_gh"
                  /\ UNCHANGED <<total_batches, attempts>>
             ELSE IF outcome = "import_error"
             THEN /\ pc' = "crashed"
                  /\ UNCHANGED <<hf_ok, total_batches, attempts>>
             ELSE /\ total_batches' = TotalBatches(Len(todo))
                  /\ attempts' = [b \in 1..TotalBatches(Len(todo)) |-> 0]
                  /\ pc' = "commit"
                  /\ UNCHANGED hf_ok
    /\ i' = 0
    /\ attempt' = 0
    /\ probe' = outcome
    /\ net_calls' = IF outcome = "import_error" THEN net_calls
                    ELSE net_calls \cup {"list_repo_files"}
    /\ UNCHANGED <<env_vars, hub, mirror, image_files, other_files, gh_ok,
                   reported, gh_locals, committed, failed_batch, gh_hist, prev_hf,
                   uploaded>>

\* One pass of the retry loop in which api.create_commit returns: the batch is
\* on the hub, and the batch loop moves on or the function returns True.
Hf_CommitSucceeds ==
    /\ pc = "commit"
    /\ LET batch == Batch(files_to_upload, i)
           batch_num == BatchNum(i)
       IN /\ hub' = hub \cup CommitPaths(batch)
          /\ attempts' = [attempts EXCEPT ![batch_num] = @ + 1]
          /\ committed' = committed \cup {batch_num}
          /\ uploaded' = uploaded \cup CommitPaths(batch)
    /\ IF HasNextBatch(i, Len(files_to_upload))
       THEN /\ i' = i + BATCH_SIZE
            /\ pc' = "commit"
            /\ UNCHANGED hf_ok
       ELSE /\ i' = i
            /\ hf_ok' = "True"
            /\ pc' = "call_gh"
    /\ attempt' = 0
    /\ net_calls' = net_calls \cup {"create_commit"}
    /\ UNCHANGED <<env_vars, mirror, image_files, other_files, remote_files,
                   files_to_upload, skipped_count, total_batches, gh_ok, reported,
                   gh_locals, probe, failed_batch, gh_hist, prev_hf>>

\* (variant: after the last attempt the batch loop goes on to the next batch)
Hf_CommitFails_skips_ahead ==
    /\ pc = "commit"
    /\ attempts' = [attempts EXCEPT ![BatchNum(i)] = @ + 1]
    /\ IF RetriesExhausted(attempt)
       THEN /\ failed_batch' = BatchNum(i)
            /\ attempt' = 0
            /\ IF HasNextBatch(i, Len(files_to_upload))
               THEN /\ i' = i + BATCH_SIZE
                    /\ UNCHANGED <<hf_ok, pc>>
               ELSE /\ hf_ok' = "False"
                    /\ pc' = "call_gh"
                    /\ UNCHANGED i
       ELSE /\ attempt' = attempt + 1
            /\ UNCHANGED <<hf_ok, failed_batch, pc, i>>
    /\ net_calls' = net_calls \cup {"create_commit"}
    /\ UNCHANGED <<env_vars, hub, mirror, image_files, other_files,
                   remote_files, files_to_upload, skipped_count, total_batches,
                   gh_ok, reported, gh_locals, probe, committed, gh_hist, prev_hf,
                   uploaded>>

\* One pass of the retry loop in which api.create_commit raises: sleep and retry,
\* or, after the last attempt, the for-else returns False.
Hf_CommitFails ==
    /\ pc = "commit"
    /\ attempts' = [attempts EXCEPT ![BatchNum(i)] = @ + 1]
    /\ IF RetriesExhausted(attempt)
       THEN /\ hf_ok' = "False"
            /\ failed_batch' = BatchNum(i)
            /\ pc' = "call_gh"
            /\ UNCHANGED attempt
       ELSE /\ attempt' = attempt + 1
            /\ UNCHANGED <<hf_ok, failed_batch, pc>>
    /\ net_calls' = net_calls \cup {"create_commit"}
    /\ UNCHANGED <<env_vars, hub, mirror, image_files, other_files,
                   remote_files, files_to_upload, skipped_count, total_batches, i,
                   gh_ok, reported, gh_locals, probe, committed, gh_hist, prev_hf,
                   uploaded>>

\* ------------------------------------------------ upload_to_github_simple

\* work_dir / f.relative_to(CURRENT_DIR), for every file copied: the paths the
\* overlay writes in the work directory.
OverlayPaths(files) == {RelPath(files[k]) : k \in DOMAIN files}

\* git status --porcelain in the working copy: the overlaid files that differ
\* from the branch; outside a working copy run_cmd returns git's stderr.
GitStatus(files) ==
    IF work_copy
    THEN IF OverlayPaths(files) \ mirror # {}
         THEN " M changed\n" ELSE ""
    ELSE "fatal: not a git repository (or any of the parent directories): .git\n"

\* str.strip() on the outputs of git status.
strip(s) == CASE s = "" -> ""
              [] s = " M changed\n" -> "M changed"
              [] OTHER -> "fatal: not a git repository (or any of the parent directories): .git"

\* The call of upload_to_github_simple: an empty list returns True; otherwise
\* the work directory is removed and created again, empty. The locals of
\* upload_to_huggingface_incremental are gone.
Gh_Entry ==
    /\ pc = "call_gh"
    /\ IF other_files = <<>>
       THEN /\ gh_ok' = "True"
            /\ pc' = "report"
            /\ UNCHANGED work_copy
       ELSE /\ pc' = "clone_ssh"
            /\ work_copy' = FALSE
            /\ UNCHANGED gh_ok
    /\ remote_files' = {}
    /\ files_to_upload' = <<>>
    /\ skipped_count' = 0
    /\ total_batches' = 0
    /\ i' = 0
    /\ attempt' = 0
    /\ attempts' = <<>>
    /\ committed' = {}
    /\ failed_batch' = 0
    /\ UNCHANGED <<env_vars, hub, mirror, image_files, other_files, hf_ok,
                   reported, status, probe, net_calls, gh_hist, prev_hf, uploaded>>

\* git clone over SSH.
Gh_CloneSsh(ok) ==
    /\ pc = "clone_ssh"
    /\ clones' = Append(clones, <<"ssh", ok>>)
    /\ work_copy' = ok
    /\ pc' = IF ok THEN "overlay" ELSE "clone_https"
    /\ net_calls' = net_calls \cup {"git clone"}
    /\ UNCHANGED <<env_vars, hub, mirror, image_files, other_files, hf_locals,
                   hf_ok, gh_ok, reported, status, hf_hist, commits, pushes, prev_hf,
                   uploaded>>

\* git clone over HTTPS after the SSH clone failed; its result is not looked at.
Gh_CloneHttps(ok) ==
    /\ pc = "clone_https"
    /\ clones' = Append(clones, <<"https", ok>>)
    /\ work_copy' = ok
    /\ pc' = "overlay"
    /\ net_calls' = net_calls \cup {"git clone"}
    /\ UNCHANGED <<env_vars, hub, mirror, image_files, other_files, hf_locals,
                   hf_ok, gh_ok, reported, status, hf_hist, commits, pushes, prev_hf,
                   uploaded>>

\* The branch on status.strip().
StatusDirty(st) == strip(st) # ""

\* cp of every file, git add ., git status --porcelain and the test of status.
Gh_OverlayAndStatus ==
    /\ pc = "overlay"
    /\ status' = GitStatus(other_files)
    /\ IF StatusDirty(GitStatus(other_files))
       THEN /\ pc' = "git_commit"
            /\ UNCHANGED gh_ok
       ELSE /\ gh_ok' = "True"
            /\ pc' = "report"
    /\ UNCHANGED <<env_vars, hub, mirror, image_files, other_files, hf_locals,
                   hf_ok, reported, work_copy, hf_hist, net_calls, gh_hist, prev_hf,
                   uploaded>>

\* git commit -m ...: its result is not looked at. It creates a commit only in a
\* working copy (with staged changes), and may fail there too.
Gh_Commit(ok) ==
    /\ pc = "git_commit"
    /\ commits' = Append(commits, work_copy /\ ok)
    /\ pc' = "git_push"
    /\ UNCHANGED <<env_vars, hub, mirror, image_files, other_files, hf_locals,
                   hf_ok, gh_ok, reported, gh_locals, hf_hist, net_calls, clones,
                   pushes, prev_hf, uploaded>>

\* git push: fails outside a working copy, succeeds or fails in one. A push that
\* succeeds publishes the commit just created.
Gh_Push(ok) ==
    /\ pc = "git_push"
    /\ LET success == work_copy /\ ok
       IN /\ pushes' = Append(pushes, success)
          /\ gh_ok' = Bool(success)
          /\ mirror' = IF success /\ commits[Len(commits)]
                       THEN mirror \cup OverlayPaths(other_files)
                       ELSE mirror
    /\ pc' = "report"
    /\ net_calls' = net_calls \cup {"git push"}
    /\ UNCHANGED <<env_vars, hub, image_files, other_files, hf_locals, hf_ok,
                   reported, gh_locals, hf_hist, clones, commits, prev_hf, uploaded>>

\* main: the closing message, chosen by hf_ok and gh_ok.
Main_Report ==
    /\ pc = "report"
    /\ reported' = IF hf_ok = "True" /\ gh_ok = "True" THEN "success" ELSE "problem"
    /\ pc' = "done"
    /\ UNCHANGED <<env_vars, hub, mirror, image_files, other_files, hf_locals,
                   hf_ok, gh_ok, gh_locals, hf_hist, net_calls, gh_hist, prev_hf,
                   uploaded>>

\* ------------------------------------- unified_vqa_datasets_parquet.py

ANNOTATION_FILE == UnderRoot(<<>>, "annotations", ".json")

\* Optional[Dict]: None, or a dict from image_id to the fields of its annotation.
None == [loaded |-> FALSE, dict |-> <<>>]

\* load_annotations(): None when ANNOTATION_FILE does not exist, else what
\* json.load returns.
load_annotations ==
    IF \E k \in DOMAIN tree : tree[k] = ANNOTATION_FILE
    THEN [loaded |-> TRUE, dict |-> annotations_json]
    ELSE None

\* for root, _, files in os.walk(top): for file in sorted(files): the
\* directories in the order of the walk, the files of one directory by name.
WalkSorted(top) ==
    LET walk == Walk(top)
        Name(f) == f.stem \o f.suffix
        DirPos(f) == CHOOSE k \in DOMAIN walk :
                        /\ walk[k].parts = f.parts
                        /\ \A j \in 1..(k - 1) : walk[j].parts # f.parts
        Before(f, g) == \/ DirPos(f) < DirPos(g)
                        \/ DirPos(f) = DirPos(g) /\ StrLess(Name(f), Name(g))
    IN SortSeq(walk, Before)

\* The data entry of one image: its path and id, updated with its annotation.
Item(image_path, annotations) ==
    LET image_id == image_path.stem
        item == [image |-> as_posix(image_path), image_id |-> image_id]
    IN IF annotations.loaded /\ image_id \in DOMAIN annotations.dict
       THEN annotations.dict[image_id] @@ item
       ELSE item

\* scan_images(): one item per image below the images directory.
scan_images ==
    LET annotations == load_annotations
        found == SelectSeq(WalkSorted(CURRENT_DIR \o <<"unified-vqa-images">>),
                           LAMBDA f : lower(f.suffix) \in IMAGE_EXTENSIONS)
    IN [k \in DOMAIN found |-> Item(found[k], annotations)]

\* create_parquet_dataset() raises: FileNotFoundError from scan_images, ValueError
\* on an empty data_list, or whatever json.load, Dataset.from_list and the
\* sample check raise.
CreateRaises(pack_ok) ==
    \/ ~images_dir_exists
    \/ scan_images = <<>>
    \/ ~pack_ok

\* main: dataset = create_parquet_dataset(); an exception ends main in its
\* except clause.
Pq_CreateDataset(pack_ok) ==
    /\ pc = "start" /\ script = "parquet"
    /\ IF CreateRaises(pack_ok)
       THEN /\ reported' = "error"
            /\ pc' = "done"
            /\ data_list' = IF images_dir_exists THEN scan_images ELSE <<>>
       ELSE /\ data_list' = scan_images
            /\ pc' = "pq_upload"
            /\ UNCHANGED reported
    /\ UNCHANGED <<script, tree, images_dir_exists, annotations_json, hub, mirror,
                   image_files, other_files, hf_locals, hf_ok, gh_ok, gh_locals, hf_hist,
                   net_calls, gh_hist, prev_hf, uploaded>>

\* upload_to_huggingface_parquet(dataset): push_to_hub returns (True) or raises (False).
Pq_Upload(ok) ==
    /\ pc = "pq_upload"
    /\ hf_ok' = Bool(ok)
    /\ hub' = IF ok THEN hub \cup {"data/train-00000-of-00001.parquet"} ELSE hub
    /\ net_calls' = net_calls \cup {"push_to_hub"}
    /\ pc' = "pq_categorize"
    /\ UNCHANGED <<env_vars, mirror, image_files, other_files, hf_locals,
                   gh_ok, reported, gh_locals, hf_hist, gh_hist, prev_hf, uploaded>>

\* categorize_code_files()
categorize_code_files ==
    SelectSeq(WalkPruned({".git", "unified-vqa-images", "__pycache__"}),
              LAMBDA f : f.suffix \in CODE_EXTENSIONS)

\* main: code_files = categorize_code_files()
Pq_CategorizeCode ==
    /\ pc = "pq_categorize"
    /\ other_files' = categorize_code_files
    /\ pc' = "call_gh"
    /\ UNCHANGED <<env_vars, hub, mirror, image_files, hf_locals, hf_ok, gh_ok,
                   reported, gh_locals, hf_hist, net_calls, gh_hist, prev_hf, uploaded>>

\* ------------------------------------------------------------ behaviours

\* The script is started again over the same local tree.
NextRun ==
    /\ pc \in {"done", "crashed"}
    /\ pc' = "start"
    /\ image_files' = <<>>
    /\ other_files' = <<>>
    /\ data_list' = <<>>
    /\ hf_ok' = "unset"
    /\ gh_ok' = "unset"
    /\ reported' = "none"
    /\ status' = ""
    /\ net_calls' = {}
    /\ clones' = <<>>
    /\ commits' = <<>>
    /\ pushes' = <<>>
    /\ prev_hf' = hf_ok
    /\ probe' = "none"
    /\ remote_files' = {}
    /\ files_to_upload' = <<>>
    /\ skipped_count' = 0
    /\ total_batches' = 0
    /\ i' = 0
    /\ attempt' = 0
    /\ UNCHANGED <<script, tree, images_dir_exists, annotations_json, hub, mirror,
                   work_copy, attempts, committed, failed_batch, uploaded>>

\* Numbers of assets of the inventories.
SmallSizes == 0..MaxSmall
LargeSizes == {k * BATCH_SIZE + d : k \in 1..MaxFullBatches, d \in {0, 1}}

\* Paths the hub may hold at the start: asset paths and one path that is no local asset.
SmallRemote == {RelPath(Asset(k)) : k \in 1..MaxSmall} \cup {"README.md"}

InitLocals ==
    /\ pc = "start"
    /\ image_files = <<>> /\ other_files = <<>> /\ data_list = <<>>
    /\ remote_files = {} /\ files_to_upload = <<>> /\ skipped_count = 0
    /\ total_batches = 0 /\ i = 0 /\ attempt = 0
    /\ hf_ok = "unset" /\ gh_ok = "unset" /\ reported = "none"
    /\ work_copy = FALSE /\ status = ""
    /\ probe = "none" /\ attempts = <<>> /\ committed = {} /\ failed_batch = 0
    /\ net_calls = {} /\ clones = <<>> /\ commits = <<>> /\ pushes = <<>>
    /\ prev_hf = "unset" /\ uploaded = {}

\* The ancillary files and the state of the mirror.
InitMirror(anc) ==
    \/ anc = <<>> /\ mirror = {}
    \/ anc = AncillaryTree /\ mirror \in {{}, OverlayPaths(AncillaryTree)}

Init ==
    /\ InitLocals
    /\ \/ \* the images directory is missing
          /\ script \in {"processor", "parquet"}
          /\ images_dir_exists = FALSE
          /\ annotations_json = <<>>
          /\ \E anc \in {<<>>, AncillaryTree} : InitMirror(anc) /\ tree = anc
          /\ hub = {}
       \/ \* a small inventory against every remote set
          /\ script = "processor"
          /\ images_dir_exists = TRUE
          /\ \E anc \in {<<>>, AncillaryTree}, n \in SmallSizes, order \in {"asc", "desc"} :
               /\ order = "desc" => n >= 2
               /\ InitMirror(anc)
               /\ tree = anc \o ImagesTree(n, order)
          /\ annotations_json = <<>>
          /\ hub \in SUBSET SmallRemote
       \/ \* a large inventory and no ancillary file
          /\ script = "processor"
          /\ images_dir_exists = TRUE
          /\ \E n \in LargeSizes : tree = ImagesTree(n, "asc")
          /\ annotations_json = <<>>
          /\ mirror = {}
          /\ hub \in {{}, {RelPath(Asset(1)), "README.md"}}
       \/ \* the parquet script over a small inventory in name order
          /\ script = "parquet"
          /\ images_dir_exists = TRUE
          /\ \E anc \in {<<>>, AncillaryTree}, n \in SmallSizes :
               /\ InitMirror(anc)
               /\ tree = anc \o ImagesTree(n, "asc")
          /\ annotations_json = <<>>
          /\ hub = {}
       \/ \* the parquet script over an annotated or unordered inventory
          /\ script = "parquet"
          /\ images_dir_exists = TRUE
          /\ \E annotated \in BOOLEAN,
                images \in {ImagesTree(n, "asc") : n \in SmallSizes}
                           \cup {ImagesTree(n, "desc") : n \in SmallSizes \ {0, 1}}
                           \cup {TwoDirTree} :
               /\ annotated \/ images \notin {ImagesTree(n, "asc") : n \in SmallSizes}
               /\ tree = (IF annotated THEN <<ANNOTATION_FILE>> ELSE <<>>) \o images
               /\ annotations_json = IF annotated THEN SampleAnnotations ELSE <<>>
          /\ mirror = {}
          /\ hub = {}

Next ==
    \/ Main_Categorize
    \/ Hf_NoImages
    \/ \E outcome \in ProbeOutcomes : Hf_ProbeAndPlan(outcome)
    \/ Hf_CommitSucceeds
    \/ Hf_CommitFails
    \/ Gh_Entry
    \/ \E ok \in BOOLEAN : Gh_CloneSsh(ok)
    \/ \E ok \in BOOLEAN : Gh_CloneHttps(ok)
    \/ Gh_OverlayAndStatus
    \/ \E ok \in BOOLEAN : Gh_Commit(ok)
    \/ \E ok \in BOOLEAN : Gh_Push(ok)
    \/ Main_Report
    \/ \E ok \in BOOLEAN : Pq_CreateDataset(ok)
    \/ \E ok \in BOOLEAN : Pq_Upload(ok)
    \/ Pq_CategorizeCode
    \/ NextRun

Spec == Init /\ [][Next]_vars

\* ============================================================ properties

\* The relative path of f below CURRENT_DIR written with forward slashes.
RECURSIVE SlashJoin(_)
SlashJoin(parts) ==
    IF Len(parts) = 1 THEN Head(parts) ELSE Head(parts) \o "/" \o SlashJoin(Tail(parts))

ForwardSlashPath(f) ==
    SlashJoin(SubSeq(f.parts, Len(CURRENT_DIR) + 1, Len(f.parts)) \o <<f.stem \o f.suffix>>)

Range(s) == {s[k] : k \in DOMAIN s}

\* The smallest k with k * b >= n.
Ceil(n, b) == CHOOSE k \in 0..n : k * b >= n /\ (k = 0 \/ (k - 1) * b < n)

RECURSIVE Concat(_)
Concat(ss) == IF ss = <<>> THEN <<>> ELSE Head(ss) \o Concat(Tail(ss))

\* The diff loop of this run has finished and its variables are still in scope.
Planned == probe # "none" /\ pc \in {"commit", "call_gh", "crashed"}

\* The diff loop has just finished: no commit has been attempted yet, or the
\* function returned on an empty worklist.
JustPlanned ==
    /\ Planned
    /\ pc = "commit" => (i = 0 /\ attempts[1] = 0)
    /\ pc = "call_gh" => files_to_upload = <<>>

\* C1: the worklist is the subsequence of the local asset list, in scan order,
\* of the entries whose forward-slash relative path is not in the remote set;
\* an entry is skipped iff its path is in the remote set, and skipped_count is
\* |L| - |worklist|. An empty remote set gives the whole list, a remote set
\* holding every path gives the empty worklist.
C1_DiffPlanning ==
    JustPlanned =>
        LET L == image_files
            R == remote_files
            W == files_to_upload
            InW == Range(W)
        IN /\ InW = {f \in Range(L) : ForwardSlashPath(f) \notin R}
           /\ SelectSeq(L, LAMBDA f : f \in InW) = W
           /\ skipped_count = Cardinality({k \in DOMAIN L : ForwardSlashPath(L[k]) \in R})
           /\ skipped_count = Len(L) - Len(W)
           /\ (R = {} => W = L)
           /\ ((\A f \in Range(L) : ForwardSlashPath(f) \in R) => W = <<>>)

\* Three assets, the first one on the hub: it is skipped, the other two are to upload.
C1_Witness ==
    /\ pc = "commit" /\ i = 0 /\ attempts[1] = 0
    /\ Len(image_files) = 3
    /\ remote_files \cap {ForwardSlashPath(f) : f \in Range(image_files)}
         = {ForwardSlashPath(image_files[1])}
    /\ files_to_upload = Tail(image_files)
    /\ skipped_count = 1

\* C2: the batch loop forms ceil(N / BATCH_SIZE) batches, which is total_batches;
\* every batch but the last has BATCH_SIZE entries, the last between 1 and
\* BATCH_SIZE; batch numbers run 1, 2, ... in order; the batches concatenated in
\* order are the worklist.
C2_BatchPartition ==
    (pc = "commit" /\ attempt = 0 /\ attempts[BatchNum(i)] = 0) =>
        LET W == files_to_upload
            N == Len(W)
            starts == RangeFrom(0, N)
            batches == [k \in DOMAIN starts |-> Batch(W, starts[k])]
            last == Len(starts)
        IN /\ N >= 1
           /\ last = Ceil(N, BATCH_SIZE)
           /\ last = total_batches
           /\ \A k \in 1..(last - 1) : Len(batches[k]) = BATCH_SIZE
           /\ Len(batches[last]) \in 1..BATCH_SIZE
           /\ \A k \in DOMAIN starts : BatchNum(starts[k]) = k
           /\ Concat(batches) = W
           /\ BatchNum(i) \in DOMAIN starts /\ starts[BatchNum(i)] = i

\* A worklist of two full batches and one more entry, the loop at its third batch.
C2_Witness ==
    /\ pc = "commit"
    /\ Len(files_to_upload) = 2 * BATCH_SIZE + 1
    /\ total_batches = 3
    /\ i = 2 * BATCH_SIZE
    /\ Len(Batch(files_to_upload, i)) = 1

\* The attempt counts in a state: bounded, equal to the retry loop's position for
\* the current batch, and MAX_RETRIES for a batch that made the function return False.
C3_State ==
    /\ \A b \in DOMAIN attempts : attempts[b] <= MAX_RETRIES
    /\ pc = "commit" => attempts[BatchNum(i)] = attempt
    /\ \A b \in committed : attempts[b] \in 1..MAX_RETRIES
    /\ failed_batch # 0 =>
          /\ attempts[failed_batch] = MAX_RETRIES
          /\ failed_batch \notin committed
          /\ hf_ok = "False"
          /\ pc = "call_gh"

\* One step of the retry loop: a committed batch is not attempted again, a batch
\* committed by this step on attempt k has been attempted k times, and False is
\* returned only by the failure of attempt MAX_RETRIES.
C3_Step ==
    pc = "commit" =>
       /\ \A b \in committed : attempts'[b] = attempts[b]
       /\ \A b \in committed' \ committed : attempts'[b] = attempt + 1
       /\ (hf_ok' = "False") => (attempt + 1 = MAX_RETRIES /\ attempts'[BatchNum(i)] = MAX_RETRIES)

\* C3: no batch is attempted more than MAX_RETRIES times; a batch that fails on
\* every attempt is attempted exactly MAX_RETRIES times and the pipeline halts
\* with failure; a batch whose commit succeeds on attempt k has been attempted
\* exactly k times and is not attempted again.
C3_RetryBound == [][C3_Step]_vars /\ []C3_State

\* The first batch committed on its second attempt, the second failed three times.
C3_Witness ==
    /\ failed_batch = 2
    /\ attempts[1] = 2 /\ 1 \in committed
    /\ attempts[2] = MAX_RETRIES
    /\ hf_ok = "False"

\* C4: batches are attempted one at a time in order, a batch only after every
\* earlier batch is committed; when batch j exhausts its retries no later batch
\* is attempted, the committed batches are exactly 1..j-1, their paths are on
\* the hub, and the function returns failure.
C4_HaltCleanPrefix ==
    /\ \A b \in DOMAIN attempts : attempts[b] > 0 => \A c \in 1..(b - 1) : c \in committed
    /\ pc = "commit" => committed = 1..(BatchNum(i) - 1)
    /\ failed_batch # 0 =>
          /\ committed = 1..(failed_batch - 1)
          /\ \A b \in DOMAIN attempts : b > failed_batch => attempts[b] = 0
          /\ \A k \in DOMAIN files_to_upload :
                k <= (failed_batch - 1) * BATCH_SIZE => ForwardSlashPath(files_to_upload[k]) \in hub
          /\ hf_ok = "False"

\* Three batches, the second failed three times: the first is committed, the
\* third was never attempted, the result is failure.
C4_Witness ==
    /\ total_batches = 3
    /\ failed_batch = 2
    /\ committed = {1}
    /\ attempts[2] = MAX_RETRIES /\ attempts[3] = 0
    /\ hf_ok = "False"

\* C5: when upload_to_huggingface_incremental has returned success the hub holds
\* the path of every local asset; a run after a successful one, with a
\* successful probe, plans an empty worklist and makes no commit; a run after a
\* halted one, with a successful probe, skips every path committed before and
\* uploads exactly the paths the hub does not hold.
C5_Idempotent ==
    /\ (script = "processor" /\ pc = "call_gh" /\ hf_ok = "True") =>
          \A k \in DOMAIN image_files : ForwardSlashPath(image_files[k]) \in hub
    /\ (script = "processor" /\ prev_hf = "True" /\ probe = "ok") =>
          /\ "create_commit" \notin net_calls
          /\ Planned => (files_to_upload = <<>> /\ skipped_count = Len(image_files))
    /\ (script = "processor" /\ probe = "ok" /\ pc = "commit" /\ committed = {}) =>
          /\ {ForwardSlashPath(f) : f \in Range(files_to_upload)} \cap uploaded = {}
          /\ \A k \in DOMAIN image_files :
                ForwardSlashPath(image_files[k]) \notin remote_files
                   => image_files[k] \in Range(files_to_upload)

\* A second run after a successful first one that uploaded something: nothing to do.
C5_Witness ==
    /\ script = "processor" /\ prev_hf = "True" /\ probe = "ok"
    /\ pc = "call_gh" /\ hf_ok = "True"
    /\ uploaded # {}
    /\ Len(image_files) >= 2
    /\ files_to_upload = <<>>
    /\ net_calls = {"list_repo_files"}

\* The plan of a run whose probe failed: the remote set is empty, nothing is
\* skipped and every local asset is in the worklist.
FullPlan ==
    /\ remote_files = {}
    /\ skipped_count = 0
    /\ files_to_upload = image_files

\* The asset pipeline goes on to the commits after the plan, and returns failure
\* only because a batch exhausted its retries.
PipelineContinues ==
    /\ pc # "crashed"
    /\ reported # "error"
    /\ Planned =>
          \/ pc = "commit"
          \/ hf_ok = "True" /\ committed = 1..total_batches
          \/ hf_ok = "False" /\ failed_batch # 0 /\ attempts[failed_batch] = MAX_RETRIES
    /\ hf_ok # "unset" => "create_commit" \in net_calls

\* C6: whatever makes the probe fail, get_remote_hf_files returns the empty set
\* instead of raising and the diff loop runs: nothing is skipped and every local
\* asset is in the worklist. After a failed list_repo_files the pipeline goes on
\* to the commits and returns failure only because a batch exhausted its
\* retries. No failed probe makes the pipeline return failure: where the probe
\* failed because huggingface_hub cannot be imported, the run is ended after
\* the plan by the upload's own import, with no result assigned, and nothing
\* else ends a run that way.
C6_FailOpenProbe ==
    /\ (probe \in {"failed", "import_error"} /\ Planned) => FullPlan
    /\ probe = "failed" => PipelineContinues
    /\ probe = "import_error" =>
          /\ pc = "crashed"
          /\ hf_ok = "unset" /\ reported = "none"
          /\ net_calls = {}
    /\ pc = "crashed" => (probe = "import_error" /\ files_to_upload # <<>>)

\* The probe failed while the hub holds a local asset: it is uploaded again.
C6_Witness ==
    /\ probe = "failed" /\ pc = "commit"
    /\ \E f \in Range(image_files) : ForwardSlashPath(f) \in hub
    /\ skipped_count = 0
    /\ files_to_upload = image_files

\* C7: when the images directory does not exist the scanner signals an error
\* and the run ends before any network call.
C7_MissingRootIsFatal ==
    (~images_dir_exists /\ pc # "start") =>
        /\ reported = "error"
        /\ pc = "done"
        /\ net_calls = {}

\* C8: the mirror sync has run to completion when main ends, whatever the asset
\* pipeline did, and main reports success iff both succeeded.
C8_DriverIndependence ==
    pc \in {"done", "crashed"} =>
        /\ gh_ok \in {"True", "False"}
        /\ (reported = "success") <=> (hf_ok = "True" /\ gh_ok = "True")

\* C9: git commit and git push are run only on a working copy whose status after
\* staging is non-empty, once each; with nothing to commit neither is run and
\* the function returns success; a failed push returns failure.
C9_CommitOnlyWhenDirty ==
    /\ Len(commits) <= 1 /\ Len(pushes) <= 1
    /\ (commits # <<>> \/ pushes # <<>>) => (work_copy /\ status = " M changed\n")
    /\ (pc \in {"report", "done"} /\ gh_ok # "unset") =>
          /\ (other_files # <<>> /\ work_copy /\ status = " M changed\n")
                => (Len(commits) = 1 /\ Len(pushes) = 1)
          /\ (other_files = <<>> \/ (work_copy /\ status = ""))
                => (commits = <<>> /\ pushes = <<>> /\ gh_ok = "True")
          /\ (pushes = <<FALSE>>) => (gh_ok = "False")

\* C10: the SSH clone is tried first and the HTTPS clone only after it failed;
\* when both fail no commit and no push is attempted and the mirror sync
\* returns failure; hf_ok is left as it was.
C10_CloneFailureIsFatal ==
    /\ Len(clones) <= 2
    /\ clones # <<>> => clones[1][1] = "ssh"
    /\ Len(clones) = 2 => (clones[1][2] = FALSE /\ clones[2][1] = "https")
    /\ (Len(clones) = 2 /\ clones[2][2] = FALSE) =>
          /\ pc \notin {"git_commit", "git_push"}
          /\ commits = <<>> /\ pushes = <<>>
          /\ pc \in {"report", "done"} => gh_ok = "False"

====
